---- MODULE Spec2Model ----
(***************************************************************************)
(* Model of deck_printer.py: the directory scanner (read_png_files), the   *)
(* card normalizer (scale_image_to_card, resize_images), the guide-line    *)
(* renderer (draw_grid) and the page compositor / document writer          *)
(* (create_pdf_with_fpdf), driven as main drives them.                      *)
(*                                                                         *)
(* Lengths on a page are kept in HALF POINTS (twice the value in points):  *)
(* the margins are (page - total) / 2, a Python true division of integers, *)
(* so every coordinate the program passes to the document is a multiple of *)
(* one half and is exact in half points.  30.5 pt is the number 61.        *)
(***************************************************************************)
EXTENDS Integers, Sequences, FiniteSets

\* ---------------------------------------------------------------- bounds
MaxCards == 10
MaxOther == 1
MaxMm == 130
MaxSrc == 6
MaxCrop == 2
MaxTarget == 4
MaxOver == 1

\* ------------------------------------------------- constants of the program
mm_width == 63
mm_height == 88
dpi == 300
x_crop_default == 35
y_crop_default == 35
bleed_default == 10
FileCap == 81
PAGE_SIZE == <<595, 842>>
GRID_SIZE == <<3, 3>>

\* ------------------------------------------------------ Python arithmetic
\* int(num / den) for den > 0: truncation toward zero.
PyInt(num, den) ==
  IF num >= 0 THEN num \div den ELSE -((-num) \div den)

\* a // b for b > 0 (floor).
FloorDivPos(a, b) ==
  IF a >= 0 THEN a \div b ELSE -((-a + b - 1) \div b)

\* a // b for b # 0 (floor, as Python's divmod uses).
PyFloorDiv(a, b) ==
  IF b > 0 THEN FloorDivPos(a, b) ELSE FloorDivPos(-a, -b)

PyMod(a, b) == a - b * PyFloorDiv(a, b)

Max(a, b) == IF a >= b THEN a ELSE b

\* ---------------------------------------------------------- mm_to_points
\* Variant: rounding to the nearest integer instead of truncating.
mm_to_points_round(mm) == (2 * mm * 720 + 254) \div (2 * 254)

\* int((mm * 72) / 25.4): mm * 72 / 25.4 = mm * 720 / 254, truncated.
mm_to_points(mm) == PyInt(mm * 720, 254)

\* main, lines 165-168: int(mm / 25.4 * dpi) = int(mm * dpi * 10 / 254).
pixel_width == PyInt(mm_width * dpi * 10, 254)
pixel_height == PyInt(mm_height * dpi * 10, 254)
CARD_SIZE == <<pixel_width, pixel_height>>
\* main, line 181.
card_size_points == <<mm_to_points(mm_width), mm_to_points(mm_height)>>

\* --------------------------------------------------------- read_png_files
\* A directory entry is [name, ext]; names are compared as integers standing
\* for their lexicographic rank.
PngFile(i) == [name |-> i, ext |-> "png"]
OtherFile(i) == [name |-> i, ext |-> "txt"]

endswith_png(f) == f.ext = "png"

\* Variant: descending order.
RECURSIVE sorted_desc(_)
sorted_desc(S) ==
  IF S = {} THEN <<>>
  ELSE LET m == CHOOSE x \in S : \A y \in S : x.name >= y.name
       IN <<m>> \o sorted_desc(S \ {m})

RECURSIVE sorted(_)
sorted(S) ==
  IF S = {} THEN <<>>
  ELSE LET m == CHOOSE x \in S : \A y \in S : x.name <= y.name
       IN <<m>> \o sorted(S \ {m})

read_png_files(directory) == sorted({f \in directory : endswith_png(f)})

\* s[:n]
Take(s, n) == SubSeq(s, 1, IF Len(s) < n THEN Len(s) ELSE n)

\* ------------------------------------------------- double arithmetic
\* int(x * (num / den)) as Python computes it in IEEE doubles, for integers
\* x > 0 and den > 0: the quotient is rounded to a 53 bit mantissa (nearest,
\* ties to even), the product of x and that double is rounded again, and
\* int() truncates.  When x * num / den is not an integer it is at least
\* 1 / den away from one, far more than the two roundings move it, and the
\* result is the exact truncation.  When it is an integer k, the result is
\* k - 1 exactly when the quotient was rounded down and the product falls
\* more than half a spacing of the doubles below k (as 49 * (1 / 49)).
MantissaBits == 52

\* The a with 2^a <= num / den < 2^(a+1), for num >= den.
RECURSIVE log2_up(_, _, _)
log2_up(num, den, a) ==
  IF num >= 2 * den * 2^a THEN log2_up(num, den, a + 1) ELSE a

\* The least m >= 0 with num * 2^m >= den.
RECURSIVE log2_down(_, _, _)
log2_down(num, den, m) ==
  IF num * 2^m < den THEN log2_down(num, den, m + 1) ELSE m

\* floor(log2(k)) for k >= 1.
RECURSIVE floor_log2(_)
floor_log2(k) == IF k < 2 THEN 0 ELSE 1 + floor_log2(k \div 2)

\* n further bits of the long division with remainder r by d0:
\* <<remainder, last bit>>.
RECURSIVE div_bits(_, _, _, _)
div_bits(r, bit, d0, n) ==
  IF n = 0 THEN <<r, bit>>
  ELSE div_bits((2 * r) % d0, (2 * r) \div d0, d0, n - 1)

\* For x * num / den an integer k >= 1: whether x * double(num / den),
\* rounded to a double, is below k.
double_product_below(x, num, den) ==
  LET k == (x * num) \div den
      up == num >= den
      a == IF up THEN log2_up(num, den, 0) ELSE -log2_down(num, den, 0)
      n0 == IF up THEN num ELSE num * 2^(-a)
      d0 == IF up THEN den * 2^a ELSE den
      rb == div_bits(n0 - d0, 1, d0, MantissaBits)
      r == rb[1]
      down == 2 * r < d0 \/ (2 * r = d0 /\ rb[2] = 0)
      p == floor_log2(k)
      sh == a + 1 + (IF k = 2^p THEN 1 ELSE 0)
  IN /\ r > 0
     /\ down
     /\ IF sh >= 0 THEN x * r * 2^sh > d0 * 2^p
                   ELSE x * r > d0 * 2^p * 2^(-sh)

RECURSIVE double_mul_trunc(_, _, _)
double_mul_trunc(x, num, den) ==
  IF num < 0 THEN -double_mul_trunc(x, -num, den)
  ELSE IF (x * num) % den # 0 \/ x * num = 0 THEN PyInt(x * num, den)
  ELSE IF double_product_below(x, num, den) THEN (x * num) \div den - 1
  ELSE (x * num) \div den

\* ------------------------------------------------------ scale_image_to_card
Raise(e) == [ok |-> FALSE, err |-> e]

\* Image.resize(new_size): Pillow refuses a size with a dimension below 1.
resize_ok(new_size) == new_size[1] >= 1 /\ new_size[2] >= 1

\* The set of outcomes of scale_image_to_card(img, card_size_pixels, x_crop,
\* y_crop), img given by its size <<width, height>>.  A crop box with
\* right < left or bottom < top is refused by Image.crop in current Pillow
\* (ValueError) and yields an empty image in older Pillow, on which line 41
\* divides by zero: both outcomes are kept.
\* scale_factor is a double: new_size is taken with double_mul_trunc.
scale_image_to_card(img, card_size_pixels, x_crop, y_crop) ==
  LET left == x_crop
      right == img[1] - x_crop
      top == y_crop
      bottom == img[2] - y_crop
      original_width == right - left
      original_height == bottom - top
      target_width == card_size_pixels[1]
      target_height == card_size_pixels[2]
  IN IF right < left \/ bottom < top
       THEN {Raise("ValueError"), Raise("ZeroDivisionError")}
     ELSE IF original_width = 0 \/ original_height = 0
       THEN {Raise("ZeroDivisionError")}
     ELSE
       LET \* scale_factor = min(th / oh, tw / ow), kept as num / den
           byHeight == target_height * original_width
                         <= target_width * original_height
           num == IF byHeight THEN target_height ELSE target_width
           den == IF byHeight THEN original_height ELSE original_width
           new_size == <<double_mul_trunc(original_width, num, den),
                         double_mul_trunc(original_height, num, den)>>
           x_offset == Max(0, FloorDivPos(target_width - new_size[1], 2))
           y_offset == Max(0, FloorDivPos(target_height - new_size[2], 2))
       IN IF ~resize_ok(new_size)
            THEN {Raise("ValueError")}
          ELSE {[ok |-> TRUE,
                 size |-> card_size_pixels,
                 scaled |-> new_size,
                 offset |-> <<x_offset, y_offset>>]}

\* ---------------------------------------------------------------- draw_grid
\* range(n) as a sequence 0, 1, ..., n-1 (empty for n <= 0).
Range(n) == [i \in 1..(IF n > 0 THEN n ELSE 0) |-> i - 1]

\* Variant: range(num_rows) and range(num_cols), one line short each way.
draw_grid_short(num_rows, num_cols, cell_width, cell_height, xm, ym, page, bleed) ==
  LET x_bleed == xm - 2 * bleed
      y_bleed == ym - 2 * bleed
      horizontal == [k \in DOMAIN Range(num_rows) |->
                       LET y == 2 * Range(num_rows)[k] * cell_height + ym
                       IN <<x_bleed, y, 2 * page[1] - x_bleed, y>>]
      vertical == [k \in DOMAIN Range(num_cols) |->
                     LET x == 2 * Range(num_cols)[k] * cell_width + xm
                     IN <<x, y_bleed, x, 2 * page[2] - y_bleed>>]
  IN horizontal \o vertical

\* A line is <<x1, y1, x2, y2>> in half points.  cell sizes and page_size are
\* in points, the margins in half points.
draw_grid(num_rows, num_cols, cell_width, cell_height, xm, ym, page, bleed) ==
  LET x_bleed == xm - 2 * bleed
      y_bleed == ym - 2 * bleed
      horizontal == [k \in DOMAIN Range(num_rows + 1) |->
                       LET y == 2 * Range(num_rows + 1)[k] * cell_height + ym
                       IN <<x_bleed, y, 2 * page[1] - x_bleed, y>>]
      vertical == [k \in DOMAIN Range(num_cols + 1) |->
                     LET x == 2 * Range(num_cols + 1)[k] * cell_width + xm
                     IN <<x, y_bleed, x, 2 * page[2] - y_bleed>>]
  IN horizontal \o vertical

\* ------------------------------------------------- create_pdf_with_fpdf parts
\* Variant: columns * columns (the wrong index of grid_size).
images_per_page_cols(grid) == grid[1] * grid[1]

images_per_page(grid) == grid[1] * grid[2]

\* (page_dimension - grid_count * card_dimension) / 2, in half points.
margin(page_dim, count, card_dim) == page_dim - count * card_dim

\* Variant: the range stops one step early.
in_range_short(p, stop, step) ==
  IF step > 0 THEN p + step < stop ELSE p > stop

\* Whether p is produced by range(0, stop, step), p a multiple of step.
in_range(p, stop, step) ==
  IF step > 0 THEN p < stop ELSE p > stop

\* Variant: quotient and remainder swapped.
divmod_swapped(a, b) == <<PyMod(a, b), PyFloorDiv(a, b)>>

\* divmod(idx, columns) = <<row, col>>
divmod(a, b) == <<PyFloorDiv(a, b), PyMod(a, b)>>

\* pdf.output(output_pdf) closes the document before writing it: FPDF adds
\* one blank page to a document to which no page was added.
close_document(pages) ==
  IF pages = <<>>
    THEN <<[lines |-> <<>>, images |-> <<>>, by |-> "output"]>>
    ELSE pages

\* ------------------------------------------------------------------- state
VARIABLES
  listing,          \* the entries of IMAGE_DIR
  src_size,         \* <<width, height>> of the source images
  page_size,        \* create_pdf_with_fpdf's arguments
  grid_size,
  card_size,
  pc,               \* where the run is
  image_files,      \* main: the sorted, capped file names
  resized_images,   \* main: list(resize_images(...))
  x_margin,         \* create_pdf_with_fpdf: locals (half points)
  y_margin,
  page,
  idx,
  pdf,              \* the document: its pages, each [lines, images]
  tempFiles,        \* temp_page_<page>_<idx>.png files on disk
  outFile,          \* the file at output_pdf: absent, partial or complete
  outputCalls,      \* calls of pdf.output
  fn_in,            \* argument(s) of a function applied on its own
  fn_out            \* its result

vars == <<listing, src_size, page_size, grid_size, card_size, pc, image_files,
          resized_images, x_margin, y_margin, page, idx, pdf, tempFiles,
          outFile, outputCalls, fn_in, fn_out>>

config == <<listing, src_size, page_size, grid_size, card_size>>
locals == <<x_margin, y_margin, page, idx>>
fnvars == <<fn_in, fn_out>>

\* ---------------------------------------------------------- input domains
Directories ==
  {{PngFile(i) : i \in 1..n} \cup {OtherFile(i) : i \in 1..m} :
     n \in 0..MaxCards, m \in 0..MaxOther}

\* Decks at and beyond main's cap on the files read.
LargeDirectories ==
  {{PngFile(i) : i \in 1..n} \cup {OtherFile(i) : i \in 1..m} :
     n \in FileCap..(FileCap + MaxOver), m \in 0..MaxOther}

SourceSizes == {<<814, 1109>>, <<1000, 1400>>, <<70, 500>>}
PageSizes == {PAGE_SIZE, <<612, 792>>}
GridSizes == {GRID_SIZE, <<2, 1>>, <<1, 2>>, <<0, 3>>, <<-1, -1>>, <<-2, 1>>}
CardSizes == {card_size_points, <<100, 150>>, <<0, 249>>}

PositiveGrid == grid_size[1] > 0 /\ grid_size[2] > 0

\* --------------------------------------------------------------------- main
\* Small decks run under every configuration, decks around the cap under
\* main's own (lines 161-163, 181).
Init ==
  /\ \/ /\ listing \in Directories
        /\ page_size \in PageSizes
        /\ grid_size \in GridSizes
        /\ card_size \in CardSizes
     \/ /\ listing \in LargeDirectories
        /\ page_size = PAGE_SIZE
        /\ grid_size = GRID_SIZE
        /\ card_size = card_size_points
  /\ src_size \in SourceSizes
  /\ pc = "read"
  /\ image_files = <<>>
  /\ resized_images = <<>>
  /\ x_margin = 0
  /\ y_margin = 0
  /\ page = 0
  /\ idx = 0
  /\ pdf = <<>>
  /\ tempFiles = {}
  /\ outFile = "absent"
  /\ outputCalls = 0
  /\ fn_in = <<>>
  /\ fn_out = <<>>

\* main, line 172: image_files = read_png_files(IMAGE_DIR)[:81]
ReadPngFiles ==
  /\ pc = "read"
  /\ image_files' = Take(read_png_files(listing), FileCap)
  /\ pc' = "resize"
  /\ UNCHANGED <<config, resized_images, locals, pdf, tempFiles, outFile,
                 outputCalls, fnvars>>

\* main, line 176: list(...) pulls the next card from resize_images.
ResizeNext ==
  /\ pc = "resize"
  /\ Len(resized_images) < Len(image_files)
  /\ \E r \in scale_image_to_card(src_size, CARD_SIZE, x_crop_default,
                                  y_crop_default) :
       IF r.ok
         THEN /\ resized_images' = Append(resized_images,
                    [src |-> image_files[Len(resized_images) + 1],
                     size |-> r.size])
              /\ pc' = pc
         ELSE /\ pc' = "failed"
              /\ UNCHANGED resized_images
  /\ UNCHANGED <<config, image_files, locals, pdf, tempFiles, outFile,
                 outputCalls, fnvars>>

\* main, line 182 and create_pdf_with_fpdf, lines 126-137: the generator is
\* exhausted, the document is created, the margins computed, the page range
\* built (range() refuses a step of 0).
CreatePdfStart ==
  /\ pc = "resize"
  /\ Len(resized_images) = Len(image_files)
  /\ x_margin' = margin(page_size[1], grid_size[1], card_size[1])
  /\ y_margin' = margin(page_size[2], grid_size[2], card_size[2])
  /\ page' = 0
  /\ idx' = 0
  /\ pc' = IF images_per_page(grid_size) = 0 THEN "failed" ELSE "pages"
  /\ UNCHANGED <<config, image_files, resized_images, pdf, tempFiles, outFile,
                 outputCalls, fnvars>>

\* lines 137-140: the next page of the range: add_page and draw_grid.
AddPage ==
  /\ pc = "pages"
  /\ in_range(page, Len(resized_images), images_per_page(grid_size))
  /\ pdf' = Append(pdf,
        [lines |-> draw_grid(grid_size[2], grid_size[1], card_size[1],
                             card_size[2], x_margin, y_margin, page_size,
                             bleed_default),
         images |-> <<>>,
         by |-> "add_page"])
  /\ idx' = 0
  /\ pc' = "cards"
  /\ UNCHANGED <<config, image_files, resized_images, x_margin, y_margin, page,
                 tempFiles, outFile, outputCalls, fnvars>>

\* line 143: whether the inner loop has a card to place at idx.
has_card(p, i, n, ipp) == i < ipp /\ p + i < n

\* lines 142-150: the card at page + idx is saved to its temporary file.
SaveTemp ==
  /\ pc = "cards"
  /\ has_card(page, idx, Len(resized_images), images_per_page(grid_size))
  /\ tempFiles' = tempFiles \cup {<<page, idx>>}
  /\ pc' = "embed"
  /\ UNCHANGED <<config, image_files, resized_images, locals, pdf, outFile,
                 outputCalls, fnvars>>

\* line 150 raising: image.save fails; the file it opened may or may not be
\* left behind.
SaveFails ==
  /\ pc = "cards"
  /\ has_card(page, idx, Len(resized_images), images_per_page(grid_size))
  /\ \E left \in BOOLEAN :
       tempFiles' = IF left THEN tempFiles \cup {<<page, idx>>} ELSE tempFiles
  /\ pc' = "failed"
  /\ UNCHANGED <<config, image_files, resized_images, locals, pdf, outFile,
                 outputCalls, fnvars>>

\* lines 145-152: pdf.image embeds the temporary file at its cell.
PdfImage ==
  /\ pc = "embed"
  /\ LET rc == divmod(idx, grid_size[1])
         row == rc[1]
         col == rc[2]
         x_offset == 2 * col * card_size[1] + x_margin
         y_offset == 2 * row * card_size[2] + y_margin
         placed == [src |-> resized_images[page + idx + 1].src,
                    path |-> <<page, idx>>,
                    x |-> x_offset, y |-> y_offset,
                    w |-> card_size[1], h |-> card_size[2]]
     IN pdf' = [pdf EXCEPT ![Len(pdf)].images = Append(@, placed)]
  /\ pc' = "remove"
  /\ UNCHANGED <<config, image_files, resized_images, locals, tempFiles,
                 outFile, outputCalls, fnvars>>

\* line 152 raising: nothing after it in the function runs.
PdfImageFails ==
  /\ pc = "embed"
  /\ pc' = "failed"
  /\ UNCHANGED <<config, image_files, resized_images, locals, pdf, tempFiles,
                 outFile, outputCalls, fnvars>>

\* line 153 and the loop's step: os.remove(temp_image_path), idx + 1.
OsRemove ==
  /\ pc = "remove"
  /\ tempFiles' = tempFiles \ {<<page, idx>>}
  /\ idx' = idx + 1
  /\ pc' = "cards"
  /\ UNCHANGED <<config, image_files, resized_images, x_margin, y_margin, page,
                 pdf, outFile, outputCalls, fnvars>>

\* lines 142-143, 137: the inner loop ends (exhausted or break), the range
\* gives the next page start.
NextPage ==
  /\ pc = "cards"
  /\ ~has_card(page, idx, Len(resized_images), images_per_page(grid_size))
  /\ page' = page + images_per_page(grid_size)
  /\ pc' = "pages"
  /\ UNCHANGED <<config, image_files, resized_images, x_margin, y_margin, idx,
                 pdf, tempFiles, outFile, outputCalls, fnvars>>

\* line 155: the range is exhausted, pdf.output(output_pdf).
PdfOutput ==
  /\ pc = "pages"
  /\ ~in_range(page, Len(resized_images), images_per_page(grid_size))
  /\ pdf' = close_document(pdf)
  /\ outputCalls' = outputCalls + 1
  /\ outFile' = "complete"
  /\ pc' = "done"
  /\ UNCHANGED <<config, image_files, resized_images, locals, tempFiles,
                 fnvars>>

\* line 155 raising: the document is closed, then the write fails before or
\* after the file is opened.
PdfOutputFails ==
  /\ pc = "pages"
  /\ ~in_range(page, Len(resized_images), images_per_page(grid_size))
  /\ pdf' = close_document(pdf)
  /\ outputCalls' = outputCalls + 1
  /\ outFile' \in {"absent", "partial"}
  /\ pc' = "failed"
  /\ UNCHANGED <<config, image_files, resized_images, locals, tempFiles,
                 fnvars>>

Next ==
  \/ ReadPngFiles
  \/ ResizeNext
  \/ CreatePdfStart
  \/ AddPage
  \/ SaveTemp
  \/ SaveFails
  \/ PdfImage
  \/ PdfImageFails
  \/ OsRemove
  \/ NextPage
  \/ PdfOutput
  \/ PdfOutputFails

Spec == Init /\ [][Next]_vars

\* ------------------------------------------- functions applied on their own
NoRun ==
  /\ listing = {}
  /\ src_size = <<0, 0>>
  /\ page_size = PAGE_SIZE
  /\ grid_size = GRID_SIZE
  /\ card_size = card_size_points
  /\ image_files = <<>>
  /\ resized_images = <<>>
  /\ x_margin = 0
  /\ y_margin = 0
  /\ page = 0
  /\ idx = 0
  /\ pdf = <<>>
  /\ tempFiles = {}
  /\ outFile = "absent"
  /\ outputCalls = 0

mainvars == <<listing, src_size, page_size, grid_size, card_size, image_files,
              resized_images, x_margin, y_margin, page, idx, pdf, tempFiles,
              outFile, outputCalls>>

\* mm_to_points(mm) for mm in 0..MaxMm.
InitMm ==
  /\ NoRun
  /\ pc = "mm_call"
  /\ fn_in \in {<<mm>> : mm \in 0..MaxMm}
  /\ fn_out = <<>>

CallMmToPoints ==
  /\ pc = "mm_call"
  /\ fn_out' = <<mm_to_points(fn_in[1])>>
  /\ pc' = "mm_returned"
  /\ UNCHANGED <<mainvars, fn_in>>

NextMm == CallMmToPoints

SpecMm == InitMm /\ [][NextMm]_vars

\* Inputs on which the double product falls below the exact one.
RoundingInputs ==
  {<<(<<49, 49>>), (<<1, 1>>), 0, 0>>,
   <<(<<98, 98>>), (<<2, 2>>), 0, 0>>,
   <<(<<111, 90>>), (<<744, 1039>>), 35, 35>>}

\* scale_image_to_card(img, card_size_pixels, x_crop, y_crop) on small images.
InitScale ==
  /\ NoRun
  /\ pc = "scale_call"
  /\ fn_in \in {<<(<<w, h>>), (<<tw, th>>), c, c>> :
                  w \in 1..MaxSrc, h \in 1..MaxSrc,
                  tw \in 1..MaxTarget, th \in 1..MaxTarget, c \in 0..MaxCrop}
                \cup RoundingInputs
  /\ fn_out = <<>>

CallScaleImageToCard ==
  /\ pc = "scale_call"
  /\ \E r \in scale_image_to_card(fn_in[1], fn_in[2], fn_in[3], fn_in[4]) :
       fn_out' = <<r>>
  /\ pc' = "scale_returned"
  /\ UNCHANGED <<mainvars, fn_in>>

NextScale == CallScaleImageToCard

SpecScale == InitScale /\ [][NextScale]_vars

\* ------------------------------------------------- what the claims speak of
RECURSIVE FlattenSrcs(_)
FlattenSrcs(pages) ==
  IF pages = <<>> THEN <<>>
  ELSE FlattenSrcs(SubSeq(pages, 1, Len(pages) - 1))
         \o [k \in DOMAIN pages[Len(pages)].images |->
               pages[Len(pages)].images[k].src]

\* The source files of the cards embedded in the document, in document order.
Embedded == FlattenSrcs(pdf)

Cols == grid_size[1]
Rows == grid_size[2]
CeilDiv(n, d) == (n + d - 1) \div d
\* The pages added by the page loop (pdf.add_page on line 138).
LoopPages == {p \in DOMAIN pdf : pdf[p].by = "add_page"}
\* The .png files of the directory.
PngFiles == {f \in listing : f.ext = "png"}
\* The .png files among the first FileCap in name order.
CappedPngFiles ==
  {f \in PngFiles : Cardinality({g \in PngFiles : g.name <= f.name}) <= FileCap}
Finished == pc \in {"done", "failed"}

\* ------------------------------------------------------------------ claims

\* C1 (as stated): with a grid of positive columns and rows, for any N >= 0
\* cards, once pdf.output has been called the document holds
\* ceil(N / (cols*rows)) pages, and the last page holds N mod (cols*rows)
\* cards, or cols*rows when N is a positive multiple; for grid 3x3 and 10
\* cards that is 2 pages of 9 and 1 cards.
C1_PageCountAnyN ==
  (PositiveGrid /\ outputCalls = 1) =>
    LET N == Len(resized_images)
    IN /\ Len(pdf) = CeilDiv(N, Cols * Rows)
       /\ N > 0 =>
            Len(pdf[Len(pdf)].images) =
              (IF N % (Cols * Rows) = 0 THEN Cols * Rows ELSE N % (Cols * Rows))
       /\ (grid_size = <<3, 3>> /\ N = 10) =>
            /\ Len(pdf) = 2
            /\ Len(pdf[1].images) = 9
            /\ Len(pdf[2].images) = 1

\* C1 (amended): with a grid of positive columns and rows, the page loop adds
\* ceil(N / (cols*rows)) pages for any N >= 0; for N >= 1 the document handed
\* to pdf.output holds exactly these pages and the last one holds
\* N mod (cols*rows) cards, or cols*rows when N is a multiple (grid 3x3, 10
\* cards: 2 pages of 9 and 1 cards); for N = 0 the loop adds no page and
\* pdf.output adds one blank page, so the document holds 1 page, not 0.
C1_PageCount ==
  (PositiveGrid /\ outputCalls = 1) =>
    LET N == Len(resized_images)
    IN /\ Cardinality(LoopPages) = CeilDiv(N, Cols * Rows)
       /\ N > 0 =>
            /\ Len(pdf) = CeilDiv(N, Cols * Rows)
            /\ Len(pdf[Len(pdf)].images) =
                 (IF N % (Cols * Rows) = 0 THEN Cols * Rows
                                           ELSE N % (Cols * Rows))
       /\ N = 0 =>
            /\ Len(pdf) = 1
            /\ pdf[1].images = <<>>
            /\ pdf[1].lines = <<>>
       /\ (grid_size = <<3, 3>> /\ N = 10) =>
            /\ Len(pdf) = 2
            /\ Len(pdf[1].images) = 9
            /\ Len(pdf[2].images) = 1

C1_Witness ==
  /\ pc = "done"
  /\ grid_size = <<3, 3>>
  /\ Len(resized_images) = 10
  /\ Len(pdf) = 2
  /\ Len(pdf[2].images) = 1

\* C2: with a positive grid, the k-th card embedded on any page (idx = k-1)
\* is placed at column idx mod columns and row idx div columns, at offset
\* (column*card_width + x_margin, row*card_height + y_margin) with
\* x_margin = (page_width - columns*card_width)/2 and y_margin =
\* (page_height - rows*card_height)/2, the same on every page (half points:
\* twice these values); for page 595x842, grid 3x3, card 178x249 the margins
\* are 30.5 and 47.5 and index 4 lands at row 1, column 1.
C2_Placement ==
  (PositiveGrid /\ Len(pdf) > 0) =>
    LET xm2 == page_size[1] - Cols * card_size[1]
        ym2 == page_size[2] - Rows * card_size[2]
    IN /\ x_margin = xm2
       /\ y_margin = ym2
       /\ \A p \in DOMAIN pdf : \A k \in DOMAIN pdf[p].images :
            /\ pdf[p].images[k].x = 2 * ((k - 1) % Cols) * card_size[1] + xm2
            /\ pdf[p].images[k].y = 2 * ((k - 1) \div Cols) * card_size[2] + ym2
       /\ (page_size = <<595, 842>> /\ grid_size = <<3, 3>>
             /\ card_size = <<178, 249>>) =>
            /\ x_margin = 61
            /\ y_margin = 95
            /\ \A p \in DOMAIN pdf : Len(pdf[p].images) >= 5 =>
                 /\ pdf[p].images[5].x = 2 * (1 * 178) + 61
                 /\ pdf[p].images[5].y = 2 * (1 * 249) + 95

C2_Witness ==
  /\ page_size = <<595, 842>>
  /\ grid_size = <<3, 3>>
  /\ card_size = <<178, 249>>
  /\ Len(pdf) = 2
  /\ Len(pdf[1].images) = 9
  /\ pdf[1].images[5].x = 417
  /\ pdf[1].images[5].y = 593
  /\ Len(pdf[2].images) = 1
  /\ pdf[2].images[1].x = 61

\* C3 (as stated): with a positive grid, the cards embedded are .png files
\* of the directory in strictly ascending name order (so none twice), page
\* by page and row-major within a page (the k-th card of a page sits at row
\* (k-1) div columns, column (k-1) mod columns), every page before the last
\* holds exactly columns*rows cards, and when the run is done every .png
\* file of the directory is embedded.
C3_EveryPngEmbedded ==
  PositiveGrid =>
    /\ \A k \in DOMAIN Embedded : Embedded[k] \in PngFiles
    /\ \A k \in 1..(Len(Embedded) - 1) :
         Embedded[k].name < Embedded[k + 1].name
    /\ \A p \in DOMAIN pdf : \A k \in DOMAIN pdf[p].images :
         /\ pdf[p].images[k].x =
              2 * ((k - 1) % Cols) * card_size[1]
                + (page_size[1] - Cols * card_size[1])
         /\ pdf[p].images[k].y =
              2 * ((k - 1) \div Cols) * card_size[2]
                + (page_size[2] - Rows * card_size[2])
    /\ \A p \in DOMAIN pdf : p < Len(pdf) => Len(pdf[p].images) = Cols * Rows
    /\ pc = "done" => {Embedded[k] : k \in DOMAIN Embedded} = PngFiles

\* C3 (amended): as stated, except that the input sequence is the first 81
\* of the sorted .png filenames (main reads read_png_files(...)[:81]): when
\* the run is done exactly these files are embedded, each once, in order; a
\* .png file beyond the 81st is never embedded.
C3_EveryCardOnceInOrder ==
  PositiveGrid =>
    LET capped == CappedPngFiles
        embedded == Embedded
    IN
    /\ \A k \in DOMAIN embedded : embedded[k] \in capped
    /\ \A k \in 1..(Len(embedded) - 1) :
         embedded[k].name < embedded[k + 1].name
    /\ \A p \in DOMAIN pdf : \A k \in DOMAIN pdf[p].images :
         /\ pdf[p].images[k].x =
              2 * ((k - 1) % Cols) * card_size[1]
                + (page_size[1] - Cols * card_size[1])
         /\ pdf[p].images[k].y =
              2 * ((k - 1) \div Cols) * card_size[2]
                + (page_size[2] - Rows * card_size[2])
    /\ \A p \in DOMAIN pdf : p < Len(pdf) => Len(pdf[p].images) = Cols * Rows
    /\ pc = "done" => {embedded[k] : k \in DOMAIN embedded} = capped

C3_Witness ==
  /\ pc = "done"
  /\ PositiveGrid
  /\ Cardinality(PngFiles) > FileCap
  /\ Len(Embedded) = FileCap
  /\ Len(pdf) = 9
  /\ Len(pdf[9].images) = 9
  /\ \E f \in listing : f.ext # "png"

\* C4: when a run of create_pdf_with_fpdf has ended, completed or aborted,
\* no temporary card file temp_page_<page>_<idx>.png is left on disk.
C4_NoTempFileLeft ==
  Finished => tempFiles = {}

\* C5: the document is written by at most one call of pdf.output; a completed
\* run has written it exactly once; it is written only after every page has
\* been added and every card embedded; and while pdf.output has not been
\* called (so in every run that aborts before it) nothing is at the output
\* path.
C5_OutputOnceAtEnd ==
  /\ outputCalls <= 1
  /\ pc = "done" => (outputCalls = 1 /\ outFile = "complete")
  /\ outputCalls = 0 => outFile = "absent"
  /\ (outputCalls = 1 /\ Cols * Rows > 0) =>
       /\ Len(Embedded) = Len(image_files)
       /\ Cardinality(LoopPages) = CeilDiv(Len(image_files), Cols * Rows)
       /\ tempFiles = {}

C5_Witness ==
  /\ pc = "done"
  /\ outputCalls = 1
  /\ outFile = "complete"
  /\ Len(pdf) >= 2
  /\ Len(Embedded) = Len(image_files)

\* C6: with a positive grid, at every point of a run the normalized cards
\* held in memory and not yet embedded number at most one page's worth,
\* columns*rows.
C6_AtMostOnePageHeld ==
  PositiveGrid => Len(resized_images) - Len(Embedded) <= Cols * Rows

\* C7 (as stated): mm_to_points(mm) is the integer nearest to mm * 72 / 25.4.
C7_NearestInteger ==
  pc = "mm_returned" =>
    2 * (fn_out[1] * 254 - fn_in[1] * 720) <= 254
      /\ 2 * (fn_in[1] * 720 - fn_out[1] * 254) <= 254

\* C7 (amended): for a non-negative integer mm, mm_to_points(mm) is
\* mm * 72 / 25.4 rounded down, floor(mm * 72 / 25.4); for 63 mm and 88 mm it
\* returns 178 and 249.
C7_Floor ==
  pc = "mm_returned" =>
    /\ fn_out[1] * 254 <= fn_in[1] * 720
    /\ fn_in[1] * 720 < (fn_out[1] + 1) * 254
    /\ fn_in[1] = 63 => fn_out[1] = 178
    /\ fn_in[1] = 88 => fn_out[1] = 249

C7_Witness ==
  /\ pc = "mm_returned"
  /\ fn_in[1] = 63
  /\ fn_out[1] = 178

\* C8: with a positive grid, every page the page loop adds (add_page on line
\* 138, not the blank page pdf.output gives an empty document), a final
\* partial page included,
\* carries exactly rows+1 horizontal lines followed by columns+1 vertical
\* lines; horizontal line r runs from x_margin - 10 to page_width -
\* (x_margin - 10) at y = r*card_height + y_margin, vertical line c from
\* y_margin - 10 to page_height - (y_margin - 10) at x = c*card_width +
\* x_margin (in half points); for page 595x842, grid 3x3, card 178x249 the
\* first horizontal line spans x from 20.5 to 574.5 at y = 47.5.
C8_GuideLines ==
  PositiveGrid =>
    \A p \in LoopPages :
      LET xm2 == page_size[1] - Cols * card_size[1]
          ym2 == page_size[2] - Rows * card_size[2]
          L == pdf[p].lines
      IN /\ Len(L) = (Rows + 1) + (Cols + 1)
         /\ \A r \in 0..Rows :
              L[r + 1] = <<xm2 - 20, 2 * r * card_size[2] + ym2,
                           2 * page_size[1] - (xm2 - 20),
                           2 * r * card_size[2] + ym2>>
         /\ \A c \in 0..Cols :
              L[Rows + 1 + c + 1] = <<2 * c * card_size[1] + xm2, ym2 - 20,
                                      2 * c * card_size[1] + xm2,
                                      2 * page_size[2] - (ym2 - 20)>>
         /\ (page_size = <<595, 842>> /\ grid_size = <<3, 3>>
               /\ card_size = <<178, 249>>) =>
              L[1] = <<41, 95, 1149, 95>>

C8_Witness ==
  /\ page_size = <<595, 842>>
  /\ grid_size = <<3, 3>>
  /\ card_size = <<178, 249>>
  /\ Len(pdf) = 2
  /\ Len(pdf[2].images) = 1
  /\ Len(pdf[2].lines) = 8
  /\ pdf[2].lines[1] = <<41, 95, 1149, 95>>

\* C9: a run with a crop margin at least half of the source image's width or
\* height never obtains a card from scale_image_to_card, and a run with a
\* grid column or row count, or a card width or height, that is zero or
\* negative never adds a page and never writes the document.
C9_DegenerateAborts ==
  /\ (2 * x_crop_default >= src_size[1] \/ 2 * y_crop_default >= src_size[2]) =>
       resized_images = <<>>
  /\ (Cols <= 0 \/ Rows <= 0 \/ card_size[1] <= 0 \/ card_size[2] <= 0) =>
       (pdf = <<>> /\ outputCalls = 0 /\ outFile = "absent")

\* C10: for a source whose cropped width and height are positive and a
\* positive footprint, scale_image_to_card returns an image of exactly the
\* footprint, the scaled image no larger than the footprint, pasted at
\* offsets (floor((tw - scaled_w)/2), floor((th - scaled_h)/2)) and lying
\* inside the canvas.
C10_ExactFootprint ==
  (pc = "scale_returned"
     /\ fn_in[1][1] - 2 * fn_in[3] > 0 /\ fn_in[1][2] - 2 * fn_in[4] > 0
     /\ fn_in[2][1] > 0 /\ fn_in[2][2] > 0) =>
    LET r == fn_out[1]
        tw == fn_in[2][1]
        th == fn_in[2][2]
    IN /\ r.ok
       /\ r.size = <<tw, th>>
       /\ r.scaled[1] <= tw /\ r.scaled[2] <= th
       /\ 2 * r.offset[1] <= tw - r.scaled[1]
       /\ tw - r.scaled[1] <= 2 * r.offset[1] + 1
       /\ 2 * r.offset[2] <= th - r.scaled[2]
       /\ th - r.scaled[2] <= 2 * r.offset[2] + 1
       /\ r.offset[1] >= 0 /\ r.offset[1] + r.scaled[1] <= tw
       /\ r.offset[2] >= 0 /\ r.offset[2] + r.scaled[2] <= th

====
